---------------------------- MODULE Spec2Model ----------------------------
(***************************************************************************)
(* Model of the similarity-metrics crate (src/src/string_distances.rs):    *)
(* the edit distance over two token sequences (damerau_levenshtein), the   *)
(* similarity normalisation (similarity), the token builder                *)
(* (concatenate_columns) and the facade damerau_levenshtein_on_logs.       *)
(*                                                                         *)
(* A Rust String is modelled as a sequence of characters, so that the      *)
(* concatenation of two columns is the concatenation of two sequences.     *)
(* A Vec<String> is a sequence of such strings; the distance engine only   *)
(* compares tokens for equality.  Rust vectors are indexed from 0, TLA+    *)
(* sequences from 1: the Rust index k is the TLA+ index k + 1.  The usize   *)
(* additions of the table stay below max(m, n) + 1 and cannot wrap.        *)
(***************************************************************************)
EXTENDS Integers, Sequences, FiniteSets, TLC

(***************************************************************************)
(* Bounds of the model.                                                    *)
(***************************************************************************)
\* longest token sequence handed to the distance engine
MaxLen == 3
\* longest value of one field of an event, in characters
MaxStrLen == 1
\* most rows of a data frame
MaxRows == 2

\* the tokens of the traces the distance engine is exercised on
Tokens == {<<"A">>, <<"B">>, <<"C">>}
\* the tokens of the three-trace runs
TriTokens == {<<"A">>, <<"B">>}

\* every sequence over S of length at most n
SeqsUpTo(S, n) == UNION {[1..k -> S] : k \in 0..n}

Traces == SeqsUpTo(Tokens, MaxLen)
TriTraces == SeqsUpTo(TriTokens, MaxLen)

(***************************************************************************)
(* Outcomes of a call.                                                     *)
(***************************************************************************)
NotRun == [status |-> "not_run"]
Panicked == [status |-> "panicked"]
Returned(v) == [status |-> "returned", value |-> v]

HasReturned(o) == o.status = "returned"

(***************************************************************************)
(* damerau_levenshtein: the table-filling loop.                            *)
(***************************************************************************)
\* std::cmp::min
Min(x, y) == IF x <= y THEN x ELSE y

\* vec![vec![0; n + 1]; m + 1] followed by the two initialisation loops:
\* distance[i][0] = i for i in 0..m+1, then distance[0][j] = j for j in 0..n+1
InitTableNoColumn(m, n) ==
    [i \in 0..m |-> [j \in 0..n |-> IF i = 0 THEN j ELSE 0]]

InitTable(m, n) ==
    [i \in 0..m |-> [j \in 0..n |-> IF i = 0 THEN j ELSE IF j = 0 THEN i ELSE 0]]

\* the bound checks Rust makes on log_one[i - 1], log_two[j - 1] and on the
\* cells distance[i][j], distance[i - 1][j], distance[i][j - 1], distance[i - 1][j - 1]
CellInRange(distance, log_one, log_two, i, j) ==
    /\ i - 1 \in 0..(Len(log_one) - 1)
    /\ j - 1 \in 0..(Len(log_two) - 1)
    /\ i \in DOMAIN distance /\ i - 1 \in DOMAIN distance
    /\ j \in DOMAIN distance[i] /\ j - 1 \in DOMAIN distance[i]

\* faulty variant: a match costs one edit, like a substitution
FillCellMatchCosts(distance, log_one, log_two, i, j) ==
    LET first == [distance EXCEPT ![i][j] =
                      Min(distance[i - 1][j] + 1, distance[i][j - 1] + 1)]
    IN  [first EXCEPT ![i][j] = Min(first[i][j], first[i - 1][j - 1] + 1)]

\* faulty variant: a mismatch always takes the diagonal, whatever the neighbours hold
FillCellDiagonalOnly(distance, log_one, log_two, i, j) ==
    IF log_one[i] = log_two[j]
    THEN [distance EXCEPT ![i][j] = distance[i - 1][j - 1]]
    ELSE [distance EXCEPT ![i][j] = distance[i - 1][j - 1] + 1]

\* faulty variant: a mismatch costs nothing on the diagonal
FillCellFreeSubstitution(distance, log_one, log_two, i, j) ==
    IF log_one[i] = log_two[j]
    THEN [distance EXCEPT ![i][j] = distance[i - 1][j - 1]]
    ELSE LET first == [distance EXCEPT ![i][j] =
                           Min(distance[i - 1][j] + 1, distance[i][j - 1] + 1)]
         IN  [first EXCEPT ![i][j] = Min(first[i][j], first[i - 1][j - 1])]

\* faulty variant: a true Damerau step, the swap of two adjacent tokens costs one edit
FillCellTransposition(distance, log_one, log_two, i, j) ==
    IF log_one[i] = log_two[j]
    THEN [distance EXCEPT ![i][j] = distance[i - 1][j - 1]]
    ELSE LET first == [distance EXCEPT ![i][j] =
                           Min(distance[i - 1][j] + 1, distance[i][j - 1] + 1)]
             second == [first EXCEPT ![i][j] = Min(first[i][j], first[i - 1][j - 1] + 1)]
         IN  IF /\ i > 1 /\ j > 1
                /\ log_one[i] = log_two[j - 1]
                /\ log_one[i - 1] = log_two[j]
             THEN [second EXCEPT ![i][j] = Min(second[i][j], second[i - 2][j - 2] + 1)]
             ELSE second

\* the body of the inner loop, for one pair (i, j)
FillCell(distance, log_one, log_two, i, j) ==
    IF log_one[i] = log_two[j]
    THEN [distance EXCEPT ![i][j] = distance[i - 1][j - 1]]
    ELSE LET first == [distance EXCEPT ![i][j] =
                           Min(distance[i - 1][j] + 1, distance[i][j - 1] + 1)]
         IN  [first EXCEPT ![i][j] = Min(first[i][j], first[i - 1][j - 1] + 1)]

\* faulty variant: the outer loop stops one row early, for i in 1..m
RECURSIVE FillFromShortRows(_, _, _, _, _)
FillFromShortRows(distance, log_one, log_two, i, j) ==
    LET m == Len(log_one)
        n == Len(log_two)
    IN  IF i >= m THEN Returned(distance)
        ELSE IF j >= n + 1 THEN FillFromShortRows(distance, log_one, log_two, i + 1, 1)
        ELSE IF ~CellInRange(distance, log_one, log_two, i, j) THEN Panicked
        ELSE FillFromShortRows(FillCell(distance, log_one, log_two, i, j),
                               log_one, log_two, i, j + 1)

\* for i in 1..m + 1 { for j in 1..n + 1 { ... } }, from the cell (i, j) on;
\* an index out of range ends the call with a panic
RECURSIVE FillFrom(_, _, _, _, _)
FillFrom(distance, log_one, log_two, i, j) ==
    LET m == Len(log_one)
        n == Len(log_two)
    IN  IF i >= m + 1 THEN Returned(distance)
        ELSE IF j >= n + 1 THEN FillFrom(distance, log_one, log_two, i + 1, 1)
        ELSE IF ~CellInRange(distance, log_one, log_two, i, j) THEN Panicked
        ELSE FillFrom(FillCell(distance, log_one, log_two, i, j),
                      log_one, log_two, i, j + 1)

\* the whole function: the outcome is the bottom-right cell of the table
damerau_levenshtein(log_one, log_two) ==
    LET m == Len(log_one)
        n == Len(log_two)
        filled == FillFrom(InitTable(m, n), log_one, log_two, 1, 1)
    IN  IF HasReturned(filled) THEN Returned(filled.value[m][n]) ELSE Panicked

(***************************************************************************)
(* similarity: 1.0 - (distance as f64 / length as f64).                    *)
(* An f64 is NaN, an infinity, or a finite number; a finite number is kept *)
(* as a reduced fraction num/den with den > 0, so that two finite results  *)
(* are equal exactly when the fractions are.  The rounding of f64 is not   *)
(* modelled: at the sizes of the model 1 - d/len differ by far more than   *)
(* the rounding error.                                                     *)
(***************************************************************************)
NaN == [kind |-> "nan"]
PosInf == [kind |-> "pos_inf"]
NegInf == [kind |-> "neg_inf"]

Abs(x) == IF x < 0 THEN -x ELSE x

RECURSIVE GCD(_, _)
GCD(x, y) == IF y = 0 THEN x ELSE GCD(y, x % y)

\* the finite number num/den, den # 0, in lowest terms with a positive denominator
Finite(num, den) ==
    LET g == GCD(Abs(num), Abs(den))
        sign == IF den < 0 THEN -1 ELSE 1
    IN  [kind |-> "finite", num |-> sign * (num \div g), den |-> sign * (den \div g)]

IsFinite(x) == x.kind = "finite"

\* usize as f64
FromUsize(n) == Finite(n, 1)

\* x / y in IEEE 754 arithmetic, for finite x >= 0 and y >= 0
F64Div(x, y) ==
    IF y.num = 0
    THEN IF x.num = 0 THEN NaN ELSE PosInf
    ELSE Finite(x.num * y.den, x.den * y.num)

\* x - y in IEEE 754 arithmetic, for finite x
F64Sub(x, y) ==
    CASE y.kind = "nan" -> NaN
      [] y.kind = "pos_inf" -> NegInf
      [] y.kind = "neg_inf" -> PosInf
      [] OTHER -> Finite(x.num * y.den - y.num * x.den, x.den * y.den)

\* faulty variant: a zero length is replaced by one before the division
similarityGuarded(distance, length) ==
    F64Sub(FromUsize(1),
           F64Div(FromUsize(distance), FromUsize(IF length = 0 THEN 1 ELSE length)))

\* faulty variant: the quotient itself, not its complement
similarityRatio(distance, length) ==
    F64Div(FromUsize(distance), FromUsize(length))

similarity(distance, length) ==
    F64Sub(FromUsize(1), F64Div(FromUsize(distance), FromUsize(length)))

(***************************************************************************)
(* concatenate_columns.  A DataFrame is a function from column names to    *)
(* columns of equal height; a column of strings is a sequence of strings.  *)
(***************************************************************************)
\* the number of rows of a frame
Height(df) == IF DOMAIN df = {} THEN 0 ELSE Len(df[CHOOSE c \in DOMAIN df : TRUE])

\* Series + Series on two string columns: row by row, left then right
AddSeries(left, right) == [k \in 1..Len(left) |-> left[k] \o right[k]]

\* df.with_column(series): the sum carries the name of its left operand, and
\* a column of that name is replaced
WithColumn(df, name, series) == [df EXCEPT ![name] = series]

\* the loop over column_names, from the index i on: column_names[0] is
\* replaced by its concatenation with column_names[i + 1]; df.column(..)
\* of a name the frame lacks makes unwrap panic
RECURSIVE ConcatenateFrom(_, _, _)
ConcatenateFrom(df, column_names, i) ==
    IF i >= Len(column_names) \/ i + 1 = Len(column_names) THEN Returned(df)
    ELSE LET a == column_names[0 + 1]
             b == column_names[(i + 1) + 1]
         IN  IF a \notin DOMAIN df \/ b \notin DOMAIN df THEN Panicked
             ELSE ConcatenateFrom(WithColumn(df, a, AddSeries(df[a], df[b])),
                                  column_names, i + 1)

\* the two assertions, the loop on a copy of the frame, then the first
\* column collected as a Vec<String>
concatenate_columns(input, column_names) ==
    IF Len(column_names) = 0 \/ Len(column_names) = 1 THEN Panicked
    ELSE LET looped == ConcatenateFrom(input, column_names, 0)
         IN  IF HasReturned(looped)
             THEN Returned(looped.value[column_names[1]])
             ELSE Panicked

(***************************************************************************)
(* damerau_levenshtein_on_logs, from the two loaded frames on.             *)
(***************************************************************************)
\* faulty variant: the similarity is taken against the length of the second trace
OnLoadedLogsSecondLength(loaded_a, loaded_b, column_names) ==
    LET a_col == concatenate_columns(loaded_a, column_names)
        b_col == concatenate_columns(loaded_b, column_names)
    IN  IF ~HasReturned(a_col) \/ ~HasReturned(b_col) THEN Panicked
        ELSE LET distance == damerau_levenshtein(a_col.value, b_col.value)
             IN  IF ~HasReturned(distance) THEN Panicked
                 ELSE Returned([distance |-> distance.value,
                                similarity |-> similarity(distance.value, Len(b_col.value))])

OnLoadedLogs(loaded_a, loaded_b, column_names) ==
    LET a_col == concatenate_columns(loaded_a, column_names)
        b_col == concatenate_columns(loaded_b, column_names)
    IN  IF ~HasReturned(a_col) \/ ~HasReturned(b_col) THEN Panicked
        ELSE LET distance == damerau_levenshtein(a_col.value, b_col.value)
             IN  IF ~HasReturned(distance) THEN Panicked
                 ELSE Returned([distance |-> distance.value,
                                similarity |-> similarity(distance.value, Len(a_col.value))])

(***************************************************************************)
(* The frames load_log_df produces: the four selected columns, the rows in *)
(* ascending order of the parsed start_timestamp, nulls first.             *)
(***************************************************************************)
LogColumns == {"concept:name", "Resource", "start_timestamp", "time:timestamp"}

\* str().strptime(..) of the timestamps of the model, in milliseconds; with
\* strict: false a text that does not parse is null, here -1, which sorts first
Strptime(text) ==
    CASE text = <<"1">> -> 1
      [] text = <<"2">> -> 2
      [] OTHER -> -1

\* the events the logs of the model are made of
LogRows ==
    {[c \in LogColumns |->
        CASE c = "concept:name" -> name
          [] c = "Resource" -> <<"r">>
          [] c = "start_timestamp" -> start
          [] OTHER -> <<"2">>] : name \in {<<"A">>, <<"B">>}, start \in {<<"1">>, <<"2">>}}

\* .sort("start_timestamp_dt", descending: false, nulls_last: false)
IsSortedByStart(rows) ==
    \A k \in 1..(Len(rows) - 1) :
        Strptime(rows[k]["start_timestamp"]) <= Strptime(rows[k + 1]["start_timestamp"])

\* the frame whose k-th row is rows[k]
FrameOfRows(columnNames, rows) ==
    [c \in columnNames |-> [k \in 1..Len(rows) |-> rows[k][c]]]

LoadedFrames ==
    {FrameOfRows(LogColumns, rows) :
        rows \in {r \in SeqsUpTo(LogRows, MaxRows) : IsSortedByStart(r)}}

\* the column lists of main, of a two-column caller and of the doc example,
\* which names a column load_log_df does not select
LogColumnLists ==
    {<<"concept:name", "Resource", "start_timestamp", "time:timestamp">>,
     <<"concept:name", "Resource">>,
     <<"concept:name", "org:resource", "start_timestamp", "time:timestamp">>}

(***************************************************************************)
(* The frames of test_concatenate_columns: the columns a, b and c.         *)
(***************************************************************************)
TestColumns == {"a", "b", "c"}
Chars == {"x", "y"}
Strings == SeqsUpTo(Chars, MaxStrLen)

TestFrames ==
    {FrameOfRows(TestColumns, rows) :
        rows \in SeqsUpTo([TestColumns -> Strings], MaxRows)}

\* every list of distinct columns, the two lengths the assertions reject included
TestColumnLists ==
    {l \in SeqsUpTo(TestColumns, 3) : \A k, n \in 1..Len(l) : k # n => l[k] # l[n]}

(***************************************************************************)
(* State.                                                                  *)
(***************************************************************************)
VARIABLES
    logs,       \* the three token sequences under comparison, logs[1..3]
    dist,       \* dist[<<x, y>>]: outcome of damerau_levenshtein(logs[x], logs[y])
    df_a,       \* the first frame
    df_b,       \* the second frame
    columns,    \* the column list handed to the calls
    a_col,      \* outcome of concatenate_columns(df_a, columns)
    compared,   \* outcome of damerau_levenshtein_on_logs on (df_a, df_b)
    swapped,    \* outcome of damerau_levenshtein_on_logs on (df_b, df_a)
    normalised  \* the last direct call of similarity: its arguments and result

vars == <<logs, dist, df_a, df_b, columns, a_col, compared, swapped, normalised>>

engineVars == <<logs, dist>>
frameVars == <<df_a, df_b, columns>>
facadeVars == <<a_col, compared, swapped, normalised>>

LogIds == 1..3
PairIds == 1..2

NoCalls == [p \in LogIds \X LogIds |-> NotRun]
NoFrame == [c \in {} |-> <<>>]

EngineIdle == logs = <<<<>>, <<>>, <<>>>> /\ dist = NoCalls
FramesIdle == df_a = NoFrame /\ df_b = NoFrame /\ columns = <<>>
FacadeIdle == a_col = NotRun /\ compared = NotRun /\ swapped = NotRun /\ normalised = NotRun

\* a caller applies damerau_levenshtein to the traces x and y
Distance(x, y) ==
    /\ dist[<<x, y>>] = NotRun
    /\ dist' = [dist EXCEPT ![<<x, y>>] = damerau_levenshtein(logs[x], logs[y])]
    /\ UNCHANGED <<logs, frameVars, facadeVars>>

\* two traces, every ordered pair of them compared
Init ==
    /\ \E a \in Traces, b \in Traces : logs = <<a, b, <<>>>>
    /\ dist = NoCalls
    /\ FramesIdle /\ FacadeIdle

Next == \E x \in PairIds, y \in PairIds : Distance(x, y)

Spec == Init /\ [][Next]_vars

\* three traces: a to b, b to c and a to c
TrianglePairs == {<<1, 2>>, <<2, 3>>, <<1, 3>>}

InitTriangle ==
    /\ logs \in [LogIds -> TriTraces]
    /\ dist = NoCalls
    /\ FramesIdle /\ FacadeIdle

NextTriangle == \E p \in TrianglePairs : Distance(p[1], p[2])

SpecTriangle == InitTriangle /\ [][NextTriangle]_vars

\* damerau_levenshtein_on_logs(filename_one, filename_two, columns), the two
\* files already loaded as df_a and df_b
Compare ==
    /\ compared = NotRun
    /\ compared' = OnLoadedLogs(df_a, df_b, columns)
    /\ UNCHANGED <<engineVars, frameVars, a_col, swapped, normalised>>

\* the same call with the two files exchanged
CompareSwapped ==
    /\ swapped = NotRun
    /\ swapped' = OnLoadedLogs(df_b, df_a, columns)
    /\ UNCHANGED <<engineVars, frameVars, a_col, compared, normalised>>

\* a caller applies similarity to a distance and a length of its own
Normalise(distance, length) ==
    /\ normalised = NotRun
    /\ normalised' = [distance |-> distance, length |-> length,
                      outcome |-> Returned(similarity(distance, length))]
    /\ UNCHANGED <<engineVars, frameVars, a_col, compared, swapped>>

InitLogs ==
    /\ df_a \in LoadedFrames
    /\ df_b \in LoadedFrames
    /\ columns \in LogColumnLists
    /\ EngineIdle /\ FacadeIdle

NextLogs ==
    \/ Compare
    \/ CompareSwapped
    \/ \E distance \in 0..MaxRows, length \in 0..MaxRows : Normalise(distance, length)

SpecLogs == InitLogs /\ [][NextLogs]_vars

\* concatenate_columns(&df, columns) on a frame of the test's shape
Concatenate ==
    /\ a_col = NotRun
    /\ a_col' = concatenate_columns(df_a, columns)
    /\ UNCHANGED <<engineVars, frameVars, compared, swapped, normalised>>

InitConcat ==
    /\ df_a \in TestFrames
    /\ df_b = NoFrame
    /\ columns \in TestColumnLists
    /\ EngineIdle /\ FacadeIdle

NextConcat == Concatenate

SpecConcat == InitConcat /\ [][NextConcat]_vars

(***************************************************************************)
(* Reference notions the claims are stated against.                        *)
(***************************************************************************)
Min3(x, y, z) == Min(Min(x, y), z)

\* the Levenshtein distance by its defining recurrence on the two sequences:
\* delete the head of a, insert the head of b, or keep/substitute the head
RECURSIVE Levenshtein(_, _)
Levenshtein(a, b) ==
    IF a = <<>> THEN Len(b)
    ELSE IF b = <<>> THEN Len(a)
    ELSE Min3(Levenshtein(Tail(a), b) + 1,
              Levenshtein(a, Tail(b)) + 1,
              Levenshtein(Tail(a), Tail(b)) + (IF Head(a) = Head(b) THEN 0 ELSE 1))

\* the positions at which two sequences of the same length differ
DifferingPositions(a, b) == {k \in 1..Len(a) : a[k] # b[k]}

\* a with the tokens at the positions k and k + 1 exchanged
SwapAdjacent(a, k) ==
    [n \in 1..Len(a) |-> IF n = k THEN a[k + 1] ELSE IF n = k + 1 THEN a[k] ELSE a[n]]

\* b is a with two adjacent, distinct tokens exchanged
IsAdjacentSwap(a, b) ==
    \E k \in 1..(Len(a) - 1) : a[k] # a[k + 1] /\ b = SwapAdjacent(a, k)

(***************************************************************************)
(* Claims about damerau_levenshtein.                                       *)
(***************************************************************************)
\* C1: for every pair of token sequences, empty ones included, the value
\* damerau_levenshtein returns is the minimum number of single-token
\* insertions, deletions and substitutions turning the first into the second,
\* as given by the Levenshtein recurrence.
C1_MinimumEdits ==
    \A p \in DOMAIN dist :
        dist[p] # NotRun => dist[p] = Returned(Levenshtein(logs[p[1]], logs[p[2]]))

\* a call on two non-empty sequences that needs an insertion and a substitution
C1_Witness ==
    /\ Len(logs[1]) = 2 /\ Len(logs[2]) = 3
    /\ logs[1][1] # logs[2][1]
    /\ dist[<<1, 2>>] = Returned(2)

\* C5: the distance from a to b is the distance from b to a.
C5_Symmetry ==
    (HasReturned(dist[<<1, 2>>]) /\ HasReturned(dist[<<2, 1>>]))
        => dist[<<1, 2>>].value = dist[<<2, 1>>].value

\* both directions computed on sequences of different lengths and contents
C5_Witness ==
    /\ HasReturned(dist[<<1, 2>>]) /\ HasReturned(dist[<<2, 1>>])
    /\ Len(logs[1]) < Len(logs[2])
    /\ dist[<<1, 2>>].value > Len(logs[2]) - Len(logs[1])

\* C6: the distance from a to c is at most the distance from a to b plus the
\* distance from b to c.
C6_Triangle ==
    (HasReturned(dist[<<1, 2>>]) /\ HasReturned(dist[<<2, 3>>]) /\ HasReturned(dist[<<1, 3>>]))
        => dist[<<1, 3>>].value <= dist[<<1, 2>>].value + dist[<<2, 3>>].value

\* three pairwise different traces, all three distances computed, the bound tight
C6_Witness ==
    /\ HasReturned(dist[<<1, 2>>]) /\ HasReturned(dist[<<2, 3>>]) /\ HasReturned(dist[<<1, 3>>])
    /\ logs[1] # logs[2] /\ logs[2] # logs[3] /\ logs[1] # logs[3]
    /\ dist[<<1, 3>>].value = dist[<<1, 2>>].value + dist[<<2, 3>>].value
    /\ dist[<<1, 3>>].value >= 2

\* C7: the distance from a sequence to itself is 0, the empty sequence included.
C7_Identity ==
    \A x \in LogIds : dist[<<x, x>>] # NotRun => dist[<<x, x>>] = Returned(0)

\* a sequence of full length and the empty sequence, each compared to itself
C7_Witness ==
    /\ Len(logs[1]) = MaxLen
    /\ logs[1][1] # logs[1][2]
    /\ logs[2] = <<>>
    /\ dist[<<1, 1>>] = Returned(0)
    /\ dist[<<2, 2>>] = Returned(0)

\* C8: two sequences of the same length that differ in exactly one position
\* are at distance exactly 1.
C8_SingleSubstitution ==
    \A p \in DOMAIN dist :
        (/\ dist[p] # NotRun
         /\ Len(logs[p[1]]) = Len(logs[p[2]])
         /\ Cardinality(DifferingPositions(logs[p[1]], logs[p[2]])) = 1)
            => dist[p] = Returned(1)

\* sequences of length three that differ in the middle position only
C8_Witness ==
    /\ Len(logs[1]) = 3 /\ Len(logs[2]) = 3
    /\ DifferingPositions(logs[1], logs[2]) = {2}
    /\ dist[<<1, 2>>] = Returned(1)

\* C9: the distance between the empty sequence and b is the length of b, the
\* distance between a and the empty sequence is the length of a, and no call
\* panics on an index out of range, whichever of the sequences are empty.
C9_EmptyBoundary ==
    \A p \in DOMAIN dist :
        /\ dist[p] # Panicked
        /\ (dist[p] # NotRun /\ logs[p[1]] = <<>>) => dist[p] = Returned(Len(logs[p[2]]))
        /\ (dist[p] # NotRun /\ logs[p[2]] = <<>>) => dist[p] = Returned(Len(logs[p[1]]))

\* the empty sequence on either side of a non-empty one, and on both sides
C9_Witness ==
    /\ logs[1] = <<>> /\ Len(logs[2]) = 2
    /\ dist[<<1, 2>>] = Returned(2)
    /\ dist[<<2, 1>>] = Returned(2)
    /\ dist[<<1, 1>>] = Returned(0)

\* C10: a sequence and the same sequence with two adjacent distinct tokens
\* exchanged are at distance exactly 2: the exchange is never one edit.
C10_NoTransposition ==
    \A p \in DOMAIN dist :
        (dist[p] # NotRun /\ IsAdjacentSwap(logs[p[1]], logs[p[2]]))
            => dist[p] = Returned(2)

\* the last two of three tokens exchanged
C10_Witness ==
    /\ Len(logs[1]) = 3
    /\ logs[1][2] # logs[1][3]
    /\ logs[2] = SwapAdjacent(logs[1], 2)
    /\ dist[<<1, 2>>] = Returned(2)

C3_FieldwiseEquality ==
    (HasReturned(a_col) /\ Len(columns) >= 2)
        => \A k, n \in 1..Height(df_a) :
               a_col.value[k] = a_col.value[n]
                   => \A c \in 1..Len(columns) : df_a[columns[c]][k] = df_a[columns[c]][n]

\* the traces of the spec's example, as loaded frames: a = [A, B] and
\* b = [A, B, C, D], four pairwise different events
ExampleRows ==
    [k \in 1..4 |->
        [c \in LogColumns |->
            CASE c = "concept:name" -> IF k \in {1, 3} THEN <<"A">> ELSE <<"B">>
              [] c = "Resource" -> <<"r">>
              [] c = "start_timestamp" -> IF k <= 2 THEN <<"1">> ELSE <<"2">>
              [] OTHER -> <<"2">>]]

ExampleA == FrameOfRows(LogColumns, SubSeq(ExampleRows, 1, 2))
ExampleB == FrameOfRows(LogColumns, ExampleRows)
ExampleColumns == <<"concept:name", "Resource", "start_timestamp", "time:timestamp">>

\* the example compared in the two orders
ExampleForward == OnLoadedLogs(ExampleA, ExampleB, ExampleColumns)
ExampleBackward == OnLoadedLogs(ExampleB, ExampleA, ExampleColumns)

\* C4: the comparison returns (distance, similarity) with distance the edit
\* distance of the two traces and similarity = 1 - distance / length of the
\* first trace; for traces of unequal length the exchange of the arguments
\* keeps the distance and changes the similarity; a = [A, B], b = [A, B, C, D]
\* gives distance 2 and similarity 0, and 1/2 with the arguments exchanged.
C4_ReferenceLength ==
    /\ HasReturned(compared) =>
           LET trace_a == concatenate_columns(df_a, columns).value
               trace_b == concatenate_columns(df_b, columns).value
               d == compared.value.distance
               sim == compared.value.similarity
           IN  /\ Returned(d) = damerau_levenshtein(trace_a, trace_b)
               /\ Len(trace_a) > 0 =>
                      /\ IsFinite(sim)
                      /\ sim.num * Len(trace_a) = (Len(trace_a) - d) * sim.den
    /\ (HasReturned(compared) /\ HasReturned(swapped) /\ Height(df_a) # Height(df_b)) =>
           /\ compared.value.distance = swapped.value.distance
           /\ compared.value.similarity # swapped.value.similarity
    /\ ExampleForward = Returned([distance |-> 2, similarity |-> Finite(0, 1)])
    /\ ExampleBackward = Returned([distance |-> 2, similarity |-> Finite(1, 2)])

\* logs of one and of two events compared in both orders: distance 1 both
\* ways, similarity 0 against the first and 1/2 against the second
C4_Witness ==
    /\ Height(df_a) = 1 /\ Height(df_b) = 2
    /\ HasReturned(compared) /\ HasReturned(swapped)
    /\ compared.value = [distance |-> 1, similarity |-> Finite(0, 1)]
    /\ swapped.value = [distance |-> 1, similarity |-> Finite(1, 2)]

=============================================================================
